---------------------------- MODULE Spec2Model ----------------------------
(***************************************************************************)
(* Software rasterizer (src/main.cpp): one triangle is ray-cast, pixel by  *)
(* pixel, into a Frame, and the Frame is written out as a P3 image.        *)
(*                                                                         *)
(* A float is held as a pair <<n, d>>:                                     *)
(*    d > 0   the finite value n/d, in lowest terms;                       *)
(*    d = 0   an IEEE special value: <<0,0>> NaN, <<1,0>> +inf,            *)
(*            <<-1,0>> -inf.                                               *)
(* Finite arithmetic is exact; the special values follow IEEE 754 (NaN     *)
(* propagates, every ordered comparison with NaN is false).  The sign of a *)
(* zero is not tracked.  For the vertex coordinates drawn here (small      *)
(* integers) every product, sum and comparison of the loop body on float   *)
(* gives the same coverage decision as on the exact values.                *)
(***************************************************************************)
EXTENDS Integers, Sequences, FiniteSets

\* Largest x and y coordinate of a triangle vertex.
MaxCoord == 2

\* Largest frame width and height.
MaxDim == 2

-----------------------------------------------------------------------------
(* float *)

Abs(k) == IF k < 0 THEN -k ELSE k

Sgn(k) == IF k < 0 THEN -1 ELSE IF k > 0 THEN 1 ELSE 0

RECURSIVE GCD(_, _)
GCD(m, k) == IF k = 0 THEN m ELSE GCD(k, m % k)

\* n/d in lowest terms with a positive denominator; d = 0 gives the special
\* value of n's sign.
Norm(n, d) ==
    IF d = 0 THEN <<Sgn(n), 0>>
    ELSE IF n = 0 THEN <<0, 1>>
    ELSE LET g == GCD(Abs(n), Abs(d))
         IN  <<(Sgn(d) * n) \div g, Abs(d) \div g>>

NaN == <<0, 0>>

\* (float)k
Flt(k) == <<k, 1>>

IsFinite(p) == p[2] # 0

IsNaN(p) == p[2] = 0 /\ p[1] = 0

FNeg(p) == <<-p[1], p[2]>>

\* lhs + rhs on float: inf + -inf and anything with NaN give NaN. (Two
\* integers need no reduction to lowest terms; likewise in FMul.)
FAdd(p, q) ==
    IF IsNaN(p) \/ IsNaN(q) THEN NaN
    ELSE IF ~IsFinite(p) THEN (IF ~IsFinite(q) /\ q # p THEN NaN ELSE p)
    ELSE IF ~IsFinite(q) THEN q
    ELSE IF p[2] = 1 /\ q[2] = 1 THEN <<p[1] + q[1], 1>>
    ELSE Norm(p[1] * q[2] + q[1] * p[2], p[2] * q[2])

FSub(p, q) == FAdd(p, FNeg(q))

\* lhs * rhs on float: 0 * inf and anything with NaN give NaN.
FMul(p, q) ==
    IF IsNaN(p) \/ IsNaN(q) THEN NaN
    ELSE IF p[2] = 1 /\ q[2] = 1 THEN <<p[1] * q[1], 1>>
    ELSE IF IsFinite(p) /\ IsFinite(q) THEN Norm(p[1] * q[1], p[2] * q[2])
    ELSE IF p[1] = 0 \/ q[1] = 0 THEN NaN
    ELSE <<Sgn(p[1]) * Sgn(q[1]), 0>>

\* lhs / rhs on float: no trap; x/0 is an infinity, 0/0 and inf/inf are NaN.
FDiv(p, q) ==
    IF IsNaN(p) \/ IsNaN(q) THEN NaN
    ELSE IF ~IsFinite(q) THEN (IF IsFinite(p) THEN <<0, 1>> ELSE NaN)
    ELSE IF ~IsFinite(p) THEN <<p[1] * (IF q[1] < 0 THEN -1 ELSE 1), 0>>
    ELSE Norm(p[1] * q[2], p[2] * q[1])

\* n * 10^k <= d for n, d > 0, without forming 10^k.
RECURSIVE ScaledLeq(_, _, _)
ScaledLeq(n, k, d) ==
    IF n > d THEN FALSE
    ELSE IF k = 0 THEN TRUE
    ELSE ScaledLeq(n * 10, k - 1, d)

\* The thresholds of the program are powers of ten, held by their exponent.
eps1 == [negExp |-> 7]

eps2 == [negExp |-> 10]

\* The literal 0.1f of the forward-distance test.
minDist == [negExp |-> 1]

\* p <= t on float, t = 10^-t.negExp.
FLeq(p, t) ==
    IF IsNaN(p) THEN FALSE
    ELSE IF ~IsFinite(p) THEN p[1] < 0
    ELSE p[1] <= 0 \/ ScaledLeq(p[1], t.negExp, p[2])

\* p < -t on float.
FLtNeg(p, t) ==
    IF IsNaN(p) THEN FALSE
    ELSE IF ~IsFinite(p) THEN p[1] < 0
    ELSE p[1] < 0 /\ ~ScaledLeq(-p[1], t.negExp, p[2])

-----------------------------------------------------------------------------
(* vec3 operations *)

VAdd(lhs, rhs) ==
    <<FAdd(lhs[1], rhs[1]), FAdd(lhs[2], rhs[2]), FAdd(lhs[3], rhs[3])>>

VSub(lhs, rhs) ==
    <<FSub(lhs[1], rhs[1]), FSub(lhs[2], rhs[2]), FSub(lhs[3], rhs[3])>>

\* vec3 * float
VScale(lhs, rhs) == <<FMul(lhs[1], rhs), FMul(lhs[2], rhs), FMul(lhs[3], rhs)>>

\* cross with the sign of its third component wrong.
crossFlippedZ(a, b) ==
    <<FSub(FMul(a[2], b[3]), FMul(a[3], b[2])),
      FSub(FMul(a[3], b[1]), FMul(a[1], b[3])),
      FSub(FMul(a[2], b[1]), FMul(a[1], b[2]))>>


cross(lhs, rhs) ==
    <<FSub(FMul(lhs[2], rhs[3]), FMul(lhs[3], rhs[2])),
      FSub(FMul(lhs[3], rhs[1]), FMul(lhs[1], rhs[3])),
      FSub(FMul(lhs[1], rhs[2]), FMul(lhs[2], rhs[1]))>>

dot(lhs, rhs) ==
    FAdd(FAdd(FMul(lhs[1], rhs[1]), FMul(lhs[2], rhs[2])), FMul(lhs[3], rhs[3]))

-----------------------------------------------------------------------------
(* program state *)

VARIABLES
    WIDTH,        \* Frame::WIDTH
    HEIGHT,       \* Frame::HEIGHT
    buffer,       \* Frame::buffer, indexed from 0
    fill,         \* the fill colour the Frame was constructed with
    tri,          \* main's tri: [vertices, colors]
    pc,           \* "raster": main's pixel loop; "write": inside writeBuffer; "done"
    x, y,         \* the loop counters of the loop pc names
    loc,          \* the locals of the latest run of the pixel loop's body
    out,          \* the lines written to the file so far
    pending,      \* the pixels the pixel loop has not processed yet
    sets,         \* per cell, the number of setPixel calls that stored into it
    rasterIters,  \* per cell, the number of pixel-loop iterations addressing it
    writeIters,   \* per cell, the number of writeBuffer iterations addressing it
    undefInt,     \* what this build's (int)f gives for a NaN or infinite f
    oob           \* TRUE once buffer was indexed at or beyond buffer.size()

vars == <<WIDTH, HEIGHT, buffer, fill, tri, pc, x, y, loc, out, pending, sets,
          rasterIters, writeIters, undefInt, oob>>

-----------------------------------------------------------------------------
(* framebuffer abstraction *)

\* An index that leaves the scanline out.
IndexNoStride(px, py) == px

\* x + y * WIDTH, the flat index of setPixel and getPixel.
Index(px, py) == px + py * WIDTH

\* Frame::Frame: buffer.assign(WIDTH * HEIGHT, fill)
NewBuffer(width, height, colour) == [i \in 0 .. (width * height - 1) |-> colour]

\* Frame::setPixel on the buffer buf: the buffer after the store (an index
\* outside the buffer stores nothing here and is recorded in oob).
setPixel(buf, px, py, colour) ==
    IF Index(px, py) \in DOMAIN buf
    THEN [buf EXCEPT ![Index(px, py)] = colour]
    ELSE buf

\* Frame::getPixel (an index outside the buffer is recorded in oob; the value
\* read there is taken as the fill colour).
getPixel(px, py) ==
    IF Index(px, py) \in DOMAIN buffer THEN buffer[Index(px, py)] ELSE fill

\* What (int)f may give when f is NaN or infinite: the conversion is undefined
\* and the build decides (INT_MIN, 0 or INT_MAX on common targets).
UndefInts == {-2147483647 - 1, 0, 2147483647}

\* A cast that rounds to the nearest integer instead of cutting.
ToIntRounded(f, ub) ==
    IF ~IsFinite(f) THEN ub
    ELSE IF f[1] >= 0 THEN (2 * f[1] + f[2]) \div (2 * f[2])
         ELSE -((2 * (-f[1]) + f[2]) \div (2 * f[2]))

\* (int)f: truncation toward zero.
ToInt(f, ub) ==
    IF ~IsFinite(f) THEN ub
    ELSE IF f[1] >= 0 THEN f[1] \div f[2]
    ELSE -((-f[1]) \div f[2])

\* One channel as writeBuffer prints it: (int)(getPixel(x, y)[k] * 255).
Channel(f, ub) == ToInt(FMul(f, Flt(255)), ub)

\* The line writeBuffer prints for one pixel.
PixelLine(colour, ub) ==
    <<Channel(colour[1], ub), Channel(colour[2], ub), Channel(colour[3], ub)>>

\* The values undefInt may take when writeBuffer is about to print buf: the
\* build decides; when every channel is finite no conversion is undefined and
\* the value is never used.
UndefChoices(buf) ==
    IF \A i \in DOMAIN buf : \A k \in 1 .. 3 : IsFinite(buf[i][k])
    THEN {0}
    ELSE UndefInts

\* The header line: "P3 " << WIDTH << " " << HEIGHT << " 255".
Header == <<"P3", WIDTH, HEIGHT, 255>>

\* An inner loop test that lets x reach WIDTH.
InRowInclusive(c) == c <= WIDTH

\* The loop conditions x < WIDTH and y < HEIGHT.
InRow(c) == c < WIDTH

InColumn(r) == r < HEIGHT

\* writeBuffer's y >= 0 on its int32_t counter.
RowLeft(r) == r >= 0

\* An export that starts one scanline too low.
FirstRowSecond == HEIGHT - 2

\* writeBuffer's first scanline, int32_t y = HEIGHT - 1 (-1 when HEIGHT is 0).
FirstRow == HEIGHT - 1

-----------------------------------------------------------------------------
(* the body of main's pixel loop *)

dir == <<Flt(0), Flt(0), Flt(1)>>

\* A hit test that leaves out the zero-area and the distance tests.
HitBarycentricOnly(a, d, barycentrics) ==
    ~(\/ FLtNeg(barycentrics[1], eps2)
      \/ FLtNeg(barycentrics[2], eps2)
      \/ FLtNeg(barycentrics[3], eps2))

\* The hit test of the if statement: none of the five rejections holds.
Hit(a, d, barycentrics) ==
    LET offAlpha == FLtNeg(barycentrics[1], eps2)
        offBeta  == FLtNeg(barycentrics[2], eps2)
        offGamma == FLtNeg(barycentrics[3], eps2)
        zeroArea == FLeq(a, eps1)
    IN  ~(zeroArea \/ offAlpha \/ offBeta \/ offGamma \/ FLeq(d, minDist))

\* The colour handed to setPixel.
Shade(colors, barycentrics) ==
    VAdd(VAdd(VScale(colors[1], barycentrics[1]),
              VScale(colors[2], barycentrics[2])),
         VScale(colors[3], barycentrics[3]))

\* The locals of one run of the loop body for pixel (px, py). barycentrics[1]
\* is the source's barycentrics[0]. divisors lists the right operand of every
\* float division the body performs.
Body(px, py) ==
    LET pix   == <<Flt(px), Flt(py), Flt(0)>>
        u     == VSub(tri.vertices[2], tri.vertices[1])
        v     == VSub(tri.vertices[3], tri.vertices[1])
        n     == cross(dir, v)
        a     == dot(u, n)
        s     == VSub(pix, tri.vertices[1])
        r     == cross(s, u)
        d     == FDiv(dot(v, r), a)
        beta  == FDiv(dot(s, n), a)
        gamma == FDiv(dot(dir, r), a)
        alpha == FSub(Flt(1), FAdd(beta, gamma))
        bary  == <<alpha, beta, gamma>>
    IN  [ran |-> TRUE, px |-> px, py |-> py, a |-> a, d |-> d,
         barycentrics |-> bary, divisors |-> <<a, a, a>>,
         hit |-> Hit(a, d, bary)]

NoLocals ==
    [ran |-> FALSE, px |-> 0, py |-> 0, a |-> Flt(0), d |-> Flt(0),
     barycentrics |-> <<Flt(0), Flt(0), Flt(0)>>, divisors |-> <<>>,
     hit |-> FALSE]

Bump(f, i) == IF i \in DOMAIN f THEN [f EXCEPT ![i] = @ + 1] ELSE f

\* One run of the loop body for pixel (px, py): the locals are computed, and
\* setPixel is called if the triangle is hit.
PixelBody(px, py) ==
    \E b \in {Body(px, py)} :
        /\ loc' = b
        /\ rasterIters' = Bump(rasterIters, Index(px, py))
        /\ pending' = pending \ {<<px, py>>}
        /\ \/ /\ b.hit
              /\ buffer' = setPixel(buffer, px, py, Shade(tri.colors, b.barycentrics))
              /\ sets' = Bump(sets, Index(px, py))
              /\ oob' = (oob \/ Index(px, py) \notin DOMAIN buffer)
           \/ /\ ~b.hit
              /\ UNCHANGED <<buffer, sets, oob>>

-----------------------------------------------------------------------------
(* main, then Frame::writeBuffer *)

\* One iteration of the inner loop, and its ++x.
RasterPixel ==
    /\ pc = "raster" /\ InColumn(y) /\ InRow(x)
    /\ PixelBody(x, y)
    /\ x' = x + 1
    /\ UNCHANGED <<WIDTH, HEIGHT, fill, tri, pc, y, out, writeIters, undefInt>>

\* The inner loop ends; ++y of the outer loop.
NextScanline ==
    /\ pc = "raster" /\ InColumn(y) /\ ~InRow(x)
    /\ x' = 0
    /\ y' = y + 1
    /\ UNCHANGED <<WIDTH, HEIGHT, buffer, fill, tri, pc, loc, out, pending,
                   sets, rasterIters, writeIters, undefInt, oob>>

\* The pixel loop ends; frame.writeBuffer opens the file and prints the header.
BeginWrite ==
    /\ pc = "raster" /\ ~InColumn(y)
    /\ pc' = "write"
    /\ out' = <<Header>>
    /\ y' = FirstRow
    /\ x' = 0
    /\ undefInt' \in UndefChoices(buffer)
    /\ UNCHANGED <<WIDTH, HEIGHT, buffer, fill, tri, loc, pending, sets,
                   rasterIters, writeIters, oob>>

WritePixel ==
    /\ pc = "write" /\ RowLeft(y) /\ InRow(x)
    /\ out' = Append(out, PixelLine(getPixel(x, y), undefInt))
    /\ writeIters' = Bump(writeIters, Index(x, y))
    /\ oob' = (oob \/ Index(x, y) \notin DOMAIN buffer)
    /\ x' = x + 1
    /\ UNCHANGED <<WIDTH, HEIGHT, buffer, fill, tri, pc, y, loc, pending, sets,
                   rasterIters, undefInt>>

WriteNextRow ==
    /\ pc = "write" /\ RowLeft(y) /\ ~InRow(x)
    /\ x' = 0
    /\ y' = y - 1
    /\ UNCHANGED <<WIDTH, HEIGHT, buffer, fill, tri, pc, loc, out, pending,
                   sets, rasterIters, writeIters, undefInt, oob>>

\* out.close(); writeBuffer and main return.
CloseFile ==
    /\ pc = "write" /\ ~RowLeft(y)
    /\ pc' = "done"
    /\ UNCHANGED <<WIDTH, HEIGHT, buffer, fill, tri, x, y, loc, out, pending,
                   sets, rasterIters, writeIters, undefInt, oob>>

Next ==
    \/ RasterPixel
    \/ NextScanline
    \/ BeginWrite
    \/ WritePixel
    \/ WriteNextRow
    \/ CloseFile

\* main's two nested loops as a whole, from the k-th pixel in row-major order
\* on: the buffer they leave.
RECURSIVE RowMajor(_, _)
RowMajor(buf, k) ==
    IF k >= WIDTH * HEIGHT THEN buf
    ELSE LET px == k % WIDTH
             py == k \div WIDTH
             b  == Body(px, py)
         IN  RowMajor(IF b.hit
                         THEN setPixel(buf, px, py, Shade(tri.colors, b.barycentrics))
                         ELSE buf,
                      k + 1)

-----------------------------------------------------------------------------
(* initial states *)

\* The state after Frame frame (width, height, colour) and the assignments
\* to tri, at the head of the pixel loop.
Start(width, height, colour, vertices, colors) ==
    /\ WIDTH = width
    /\ HEIGHT = height
    /\ buffer = NewBuffer(width, height, colour)
    /\ fill = colour
    /\ tri = [vertices |-> vertices, colors |-> colors]
    /\ pc = "raster"
    /\ x = 0
    /\ y = 0
    /\ loc = NoLocals
    /\ out = <<>>
    /\ pending = (0 .. width - 1) \X (0 .. height - 1)
    /\ sets = NewBuffer(width, height, 0)
    /\ rasterIters = NewBuffer(width, height, 0)
    /\ writeIters = NewBuffer(width, height, 0)
    /\ undefInt = 0
    /\ oob = FALSE

\* main's fill colour { 0.32, 0.32, 0.32 } and vertex colours.
MainFill == <<Norm(32, 100), Norm(32, 100), Norm(32, 100)>>

MainColors ==
    <<<<Norm(84, 100), Norm(84, 100), Flt(0)>>,
      <<Flt(0), Norm(84, 100), Norm(84, 100)>>,
      <<Norm(84, 100), Flt(0), Norm(84, 100)>>>>

\* The z coordinates a vertex is given: on the view plane, or in front of it.
ZVals == {Flt(0), Flt(1)}

Points == (0 .. MaxCoord) \X (0 .. MaxCoord)

Vertices(zs) == {<<Flt(p[1]), Flt(p[2]), vz>> : p \in Points, vz \in zs}

\* Every triangle over the vertex grid, drawn into a MaxDim x MaxDim frame.
Init ==
    \E v0 \in Vertices(ZVals), v1 \in Vertices(ZVals), v2 \in Vertices(ZVals) :
        Start(MaxDim, MaxDim, MainFill, <<v0, v1, v2>>, MainColors)

Spec == Init /\ [][Next]_vars

\* The same triangles, a vertex's z possibly NaN.
InitNaN ==
    \E v0 \in Vertices(ZVals \cup {NaN}), v1 \in Vertices(ZVals \cup {NaN}),
       v2 \in Vertices(ZVals \cup {NaN}) :
        Start(MaxDim, MaxDim, MainFill, <<v0, v1, v2>>, MainColors)

SpecNaN == InitNaN /\ [][Next]_vars

\* Frames of every size from 0 x 0, of several fill colours, under a few
\* triangles: one over the lower-left half of the vertex grid, one of a
\* single point, one facing away, one with a NaN in it, one over
\* the three pixels next to the origin.
FillLevels == {Flt(0), Norm(32, 100), Norm(1, 2), Norm(999, 1000), Flt(1)}

Fills == {<<r, g, MainFill[3]>> : r \in FillLevels, g \in FillLevels}

\* Vertex colours outside [0, 1].
WideColors ==
    <<<<Flt(2), Norm(-1, 2), Flt(0)>>,
      <<Flt(0), Flt(2), Norm(-1, 2)>>,
      <<Norm(-1, 2), Flt(0), Flt(2)>>>>

At(vx, vy, vz) == <<Flt(vx), Flt(vy), Flt(vz)>>

FrameTriangles ==
    {<<At(0, 0, 1), At(0, MaxCoord, 1), At(MaxCoord, 0, 1)>>,
     <<At(1, 1, 1), At(1, 1, 1), At(1, 1, 1)>>,
     <<At(0, 0, 1), At(MaxCoord, 0, 1), At(0, MaxCoord, 1)>>,
     <<At(0, 0, 1), <<Flt(0), Flt(MaxCoord), NaN>>, At(MaxCoord, 0, 1)>>,
     <<At(0, 0, 1), At(0, 1, 1), At(1, 0, 1)>>}

InitFrame ==
    \E w \in 0 .. MaxDim, h \in 0 .. MaxDim, f \in Fills,
       t \in FrameTriangles, c \in {MainColors, WideColors} :
        Start(w, h, f, t, c)

SpecFrame == InitFrame /\ [][Next]_vars

\* A 4 x 4 frame filled with (0,0,0) and the triangle on (0,0), (3,0), (0,3)
\* coloured red, green, blue: its vertices in each order, on the view plane
\* and one unit in front of it.
Black == <<Flt(0), Flt(0), Flt(0)>>

RedGreenBlue ==
    <<<<Flt(1), Flt(0), Flt(0)>>, <<Flt(0), Flt(1), Flt(0)>>, <<Flt(0), Flt(0), Flt(1)>>>>

ScenarioPoints == {<<0, 0>>, <<3, 0>>, <<0, 3>>}

ScenarioTriangles ==
    {<<At(t[1][1], t[1][2], vz), At(t[2][1], t[2][2], vz), At(t[3][1], t[3][2], vz)>> :
        t \in {s \in ScenarioPoints \X ScenarioPoints \X ScenarioPoints :
                  s[1] # s[2] /\ s[2] # s[3] /\ s[1] # s[3]},
        vz \in {0, 1}}

InitScenario ==
    \E t \in ScenarioTriangles : Start(4, 4, Black, t, RedGreenBlue)

SpecScenario == InitScenario /\ [][Next]_vars

\* The loop body run once per pixel in any order: the iterations of the
\* pixel loop, permuted.
AnyPixel ==
    /\ pc = "raster"
    /\ \E p \in pending : PixelBody(p[1], p[2])
    /\ UNCHANGED <<WIDTH, HEIGHT, fill, tri, pc, x, y, out, writeIters, undefInt>>

Corners == {<<Flt(vx), Flt(vy), Flt(1)>> : vx \in {0, MaxCoord}, vy \in {0, MaxCoord}}

InitAnyOrder ==
    \E v1 \in Corners, v2 \in Corners :
        Start(MaxDim, MaxDim, MainFill, <<At(0, 0, 1), v1, v2>>, MainColors)

NextAnyOrder == AnyPixel

SpecAnyOrder == InitAnyOrder /\ [][NextAnyOrder]_vars

-----------------------------------------------------------------------------
(* The triangle's projection onto the view plane, from its vertices' x and y *)
(* alone (integers in every initial state).                                  *)

VX(i) == tri.vertices[i][1][1]

VY(i) == tri.vertices[i][2][1]

\* Twice the signed area of (a, b, c): positive when they run anticlockwise
\* (x to the right, y up).
Orient(ax, ay, bx, by, cx, cy) == (bx - ax) * (cy - ay) - (by - ay) * (cx - ax)

Area2 == Orient(VX(1), VY(1), VX(2), VY(2), VX(3), VY(3))

\* The edge function of the edge opposite vertex i, at the point (px, py).
Edge(i, px, py) ==
    LET j == (i % 3) + 1
        k == (j % 3) + 1
    IN  Orient(VX(j), VY(j), VX(k), VY(k), px, py)

StrictlyInside(px, py) ==
    \/ \A i \in 1 .. 3 : Edge(i, px, py) > 0
    \/ \A i \in 1 .. 3 : Edge(i, px, py) < 0

\* (px, py) lies in the convex hull of the three projected vertices (a
\* triangle, a segment or a point).
InHull(px, py) ==
    /\ \E i \in 1 .. 3 : VX(i) <= px
    /\ \E i \in 1 .. 3 : VX(i) >= px
    /\ \E i \in 1 .. 3 : VY(i) <= py
    /\ \E i \in 1 .. 3 : VY(i) >= py
    /\ \/ \A i \in 1 .. 3 : Edge(i, px, py) >= 0
       \/ \A i \in 1 .. 3 : Edge(i, px, py) <= 0

\* The barycentric weight of vertex i at (px, py), for a triangle of area # 0.
Weight(i, px, py) == Norm(Edge(i, px, py), Area2)

Weights(px, py) == <<Weight(1, px, py), Weight(2, px, py), Weight(3, px, py)>>

\* The z of the triangle's plane over (px, py): how far along its ray the
\* pixel meets the plane.
Depth(px, py) ==
    FAdd(FAdd(FMul(Weight(1, px, py), tri.vertices[1][3]),
              FMul(Weight(2, px, py), tri.vertices[2][3])),
         FMul(Weight(3, px, py), tri.vertices[3][3]))

\* color0*w[1] + color1*w[2] + color2*w[3], channel by channel.
Blend(w) ==
    [k \in 1 .. 3 |->
        FAdd(FAdd(FMul(tri.colors[1][k], w[1]), FMul(tri.colors[2][k], w[2])),
             FMul(tri.colors[3][k], w[3]))]

\* f > 0.1
AheadOfOrigin(f) == IsFinite(f) /\ 10 * f[1] > f[2]

\* The pixel the loop body ran for last, and its cell.
LastCell == Index(loc.px, loc.py)

-----------------------------------------------------------------------------
(* Claims *)

C8_NoDivisionWhenDegenerate ==
    (loc.ran /\ FLeq(loc.a, eps1))
        => /\ ~loc.hit
           /\ \A i \in DOMAIN loc.divisors : loc.divisors[i] # loc.a


\* p > t and p >= -t on float, t a threshold (false when p is NaN).
FGt(p, t) == ~IsNaN(p) /\ ~FLeq(p, t)

FGeqNeg(p, t) == ~IsNaN(p) /\ ~FLtNeg(p, t)

\* C3 (as stated): the pixel the loop body ran for was written (setPixel was
\* called for it) if and only if a > 1e-7, alpha >= -eps, beta >= -eps,
\* gamma >= -eps and d > 0.1.
C3_WrittenIffAllHold ==
    loc.ran =>
        ((sets[LastCell] > 0) <=>
            /\ FGt(loc.a, eps1)
            /\ FGeqNeg(loc.barycentrics[1], eps2)
            /\ FGeqNeg(loc.barycentrics[2], eps2)
            /\ FGeqNeg(loc.barycentrics[3], eps2)
            /\ FGt(loc.d, minDist))

\* The pixels the loop has processed so far.
Processed == ((0 .. WIDTH - 1) \X (0 .. HEIGHT - 1)) \ pending

\* C4 (as stated): a processed pixel outside the triangle's projection was
\* never covered, and its cell still holds the fill colour.
C4_OutsideKeepsFill ==
    \A p \in Processed :
        ~InHull(p[1], p[2])
            => sets[Index(p[1], p[2])] = 0 /\ buffer[Index(p[1], p[2])] = fill

FiniteVertex(i) == \A k \in 1 .. 3 : IsFinite(tri.vertices[i][k])

SameVertex(i, j) ==
    FiniteVertex(i) /\ FiniteVertex(j) /\ tri.vertices[i] = tri.vertices[j]

Collinear ==
    /\ \A i \in 1 .. 3 : FiniteVertex(i)
    /\ cross(VSub(tri.vertices[2], tri.vertices[1]),
             VSub(tri.vertices[3], tri.vertices[1])) = <<Flt(0), Flt(0), Flt(0)>>

\* Two vertices identical (all three equal included), or three collinear.
Degenerate == SameVertex(1, 2) \/ SameVertex(2, 3) \/ SameVertex(1, 3) \/ Collinear

\* C5 (as stated): under a degenerate triangle no pixel is covered: every
\* cell of the frame holds the fill colour, at every point of the run.
C5_DegenerateCoversNothing ==
    Degenerate => \A i \in DOMAIN buffer : sets[i] = 0 /\ buffer[i] = fill


\* The frame main's pixel loop leaves for this triangle and fill colour.
RowMajorFrame == RowMajor(NewBuffer(WIDTH, HEIGHT, fill), 0)

\* channel * 255 cut to an integer toward zero, for a finite channel n/d.
Trunc255(c) ==
    IF c[1] >= 0 THEN (255 * c[1]) \div c[2] ELSE -((255 * (-c[1])) \div c[2])

\* The three integers a cell is printed as.
Printed(cell) ==
    [k \in 1 .. 3 |-> IF IsFinite(cell[k]) THEN Trunc255(cell[k]) ELSE undefInt]

\* The cell the k-th pixel line stands for: scanline HEIGHT-1 first, each
\* scanline from x = 0.
LineX(k) == (k - 1) % WIDTH

LineY(k) == HEIGHT - 1 - ((k - 1) \div WIDTH)

LineCell(k) == LineX(k) + LineY(k) * WIDTH

\* C6: writeBuffer prints the header P3 <width> <height> 255 first, then one
\* triple per cell, scanline HEIGHT-1 first down to scanline 0 and x from 0
\* up to WIDTH-1 within a scanline, the k-th triple being the cell at that
\* place; WIDTH*HEIGHT triples in all; and the frame stays as the pixel loop
\* left it.
C6_ExportOrder ==
    pc \in {"write", "done"} =>
        /\ Len(out) >= 1 /\ out[1] = <<"P3", WIDTH, HEIGHT, 255>>
        /\ Len(out) <= 1 + WIDTH * HEIGHT
        /\ \A k \in 1 .. Len(out) - 1 : out[k + 1] = Printed(buffer[LineCell(k)])
        /\ pc = "done" => Len(out) = 1 + WIDTH * HEIGHT
        /\ buffer = RowMajorFrame

\* C6 witness: a frame of two scanlines, a shaded and an untouched cell among
\* them, has been printed in full, its first and last pixel lines differing.
C6_Witness ==
    /\ pc = "done" /\ WIDTH >= 2 /\ HEIGHT >= 2
    /\ Len(out) = 1 + WIDTH * HEIGHT
    /\ out[2] # out[Len(out)]
    /\ \E i \in DOMAIN sets : sets[i] = 1
    /\ \E i \in DOMAIN sets : sets[i] = 0

\* C7: for a cell that was never written, so that it holds the fill colour c
\* (components in [0, 1]), each printed integer e satisfies e <= 255*c < e + 1
\* (c*255 cut toward zero, not rounded), hence 0 <= c - e/255 < 1/255, and
\* 0 <= e <= 255.
C7_FillRoundTrip ==
    \A k \in 1 .. Len(out) - 1 :
        sets[LineCell(k)] = 0 =>
            \A ch \in 1 .. 3 :
                LET e == out[k + 1][ch]
                    c == fill[ch]
                IN  /\ e * c[2] <= 255 * c[1]
                    /\ 255 * c[1] < (e + 1) * c[2]
                    /\ 0 <= e /\ e <= 255

\* C7 witness: an untouched cell of fill 0.32 / 0.999 / 0.32 was printed as
\* 81 254 81.
C7_Witness ==
    /\ pc = "done"
    /\ fill = <<Norm(32, 100), Norm(999, 1000), Norm(32, 100)>>
    /\ \E k \in 1 .. Len(out) - 1 :
        sets[LineCell(k)] = 0 /\ out[k + 1] = <<81, 254, 81>>

\* C10, the part about states: no access falls outside the buffer; the pixel
\* the loop body ran for and the pixel writeBuffer printed last have
\* 0 <= x < WIDTH and 0 <= y < HEIGHT; no cell is visited twice by either
\* loop; writeBuffer starts only when every pixel has been processed; at the
\* end each loop has visited each cell once; a frame of zero width or height
\* has no iteration of either loop.
C10_InRange ==
    /\ ~oob
    /\ loc.ran =>
        /\ 0 <= loc.px /\ loc.px < WIDTH
        /\ 0 <= loc.py /\ loc.py < HEIGHT
        /\ LastCell < WIDTH * HEIGHT
    /\ (pc = "write" /\ x >= 1) =>
        /\ x - 1 < WIDTH
        /\ 0 <= y /\ y < HEIGHT
        /\ Index(x - 1, y) < WIDTH * HEIGHT
    /\ \A i \in DOMAIN buffer : rasterIters[i] <= 1 /\ writeIters[i] <= 1
    /\ pc = "raster" => \A i \in DOMAIN buffer : writeIters[i] = 0
    /\ pc \in {"write", "done"} =>
        /\ pending = {}
        /\ \A i \in DOMAIN buffer : rasterIters[i] = 1
    /\ pc = "done" => \A i \in DOMAIN buffer : writeIters[i] = 1
    /\ (WIDTH = 0 \/ HEIGHT = 0) => ~loc.ran /\ Len(out) <= 1

\* The number of steps main has left: loop tests and loop bodies of the pixel
\* loop, then of writeBuffer, then the closing of the file.
Remaining ==
    CASE pc = "raster" -> (HEIGHT - y) * (WIDTH + 1) - x + (HEIGHT + 1) * (WIDTH + 1) + 2
      [] pc = "write"  -> (y + 1) * (WIDTH + 1) - x + 1
      [] OTHER         -> 0

C9_OrderFree ==
    LET rowMajor == RowMajorFrame
    IN  /\ \A i \in DOMAIN buffer : sets[i] <= 1 /\ rasterIters[i] <= 1
        /\ \A p \in pending :
            sets[Index(p[1], p[2])] = 0 /\ buffer[Index(p[1], p[2])] = fill
        /\ \A p \in Processed : buffer[Index(p[1], p[2])] = rowMajor[Index(p[1], p[2])]
        /\ pending = {} => buffer = rowMajor

\* C9 witness: every pixel has been processed, the last of them not the last
\* in row-major order, some covered and some not.
C9_Witness ==
    /\ pending = {} /\ loc.ran
    /\ <<loc.px, loc.py>> # <<WIDTH - 1, HEIGHT - 1>>
    /\ \E i \in DOMAIN sets : sets[i] = 1
    /\ \E i \in DOMAIN sets : sets[i] = 0
    /\ buffer = RowMajorFrame

\* The triangle of the scenario as stated, and the same three points listed
\* clockwise one unit in front of the view plane.
ScenarioAsStated == tri.vertices = <<At(0, 0, 0), At(3, 0, 0), At(0, 3, 0)>>

ScenarioClockwiseAhead == tri.vertices = <<At(0, 0, 1), At(0, 3, 1), At(3, 0, 1)>>

Red == <<Flt(1), Flt(0), Flt(0)>>

\* C1 (as stated): with the 4 x 4 frame filled with (0,0,0) and the triangle
\* (0,0,0), (3,0,0), (0,3,0) coloured red, green, blue, after the pixel loop
\* pixel (0,0) holds (1,0,0) and pixel (3,3) holds (0,0,0).
C1_ScenarioAsStated ==
    (pc # "raster" /\ ScenarioAsStated)
        => buffer[Index(0, 0)] = Red /\ buffer[Index(3, 3)] = Black

\* C1 (amended): with that frame and triangle no pixel is covered (a = -9 and
\* d = 0 reject each one), so after the pixel loop pixel (0,0) and pixel (3,3)
\* both hold (0,0,0); with the same points listed clockwise and one unit
\* ahead, (0,0,1), (0,3,1), (3,0,1), pixel (0,0) holds (1,0,0) and pixel
\* (3,3) holds (0,0,0).
C1_ScenarioCorrected ==
    /\ ScenarioAsStated =>
        \A i \in DOMAIN buffer : sets[i] = 0 /\ buffer[i] = Black
    /\ (pc # "raster" /\ ScenarioClockwiseAhead) =>
        /\ buffer[Index(0, 0)] = Red /\ sets[Index(0, 0)] = 1
        /\ buffer[Index(3, 3)] = Black

\* C1 witness: the pixel loop has run over the scenario's frame and triangle
\* and the file is written; pixel (0,0) is black.
C1_Witness ==
    /\ pc = "done" /\ ScenarioAsStated
    /\ WIDTH = 4 /\ HEIGHT = 4 /\ pending = {}
    /\ buffer[Index(0, 0)] = Black

=============================================================================
